---- MODULE Spec2Model ----
(***************************************************************************)
(* Parcel viewer: the selection / detail-synchronisation logic of the      *)
(* React application (src/frontend/src/App.jsx, function App) together     *)
(* with the two detail routes of the server it talks to.                   *)
(*                                                                         *)
(* JavaScript values are encoded as strings: Nil stands for null,          *)
(* Undef for undefined, "n7" for the number 7 (so that String(7) = "7" is  *)
(* a real conversion).  Records stand for objects.                         *)
(***************************************************************************)
EXTENDS Integers, Sequences, FiniteSets, Bags, TLC

(* ------------------------------ bounds -------------------------------- *)
\* at most this many continuations pending at once: handlers suspended at
\* an await (detail fetch, search) and setTimeout callbacks
MaxInflight == 2

(* --------------------------- JS value helpers -------------------------- *)
Nil == "null"
Undef == "undefined"

\* String(v) for the identifier values of the model
JsString(v) ==
  CASE v = "n7" -> "7"
    [] v = "n8" -> "8"
    [] OTHER -> v

\* a || b for the (string-or-missing) values of the model
JsOr(a, b) == IF a = Nil \/ a = Undef \/ a = "" THEN b ELSE a

\* String.prototype.toLowerCase on the alphabet of the model
ToLowerCase(t) ==
  CASE t = "U1" -> "u1"
    [] t = "P1" -> "p1"
    [] OTHER -> t

(* --------------------------- the detail store -------------------------- *)
\* rows of property_master: master_id is a UUID, prop_id the secondary id
PropertyMaster == { [master_id |-> "u1", prop_id |-> "p1"],
                    [master_id |-> "u3", prop_id |-> "p3"] }

\* the server: its table, and the request it has handled with the answer
\* it has sent
VARIABLES
  propertyMaster,      \* the rows of property_master
  srvReq,              \* the request handled (NoRequest before)
  srvRes               \* the answer sent (NoResponse before)

serverVars == << propertyMaster, srvReq, srvRes >>

\* UUID_RX.test(id)
UuidShaped(id) == id \in {"u1", "u2", "u3"}

NoRow == [master_id |-> Nil, prop_id |-> Nil]

\* r.rows?.[0] || null of the master_id query
getDetailsByMasterId(masterId) ==
  IF \E r \in propertyMaster : r.master_id = masterId
    THEN CHOOSE r \in propertyMaster : r.master_id = masterId
    ELSE NoRow

\* r.rows?.[0] || null of the prop_id query
getDetailsByPropId(propId) ==
  IF \E r \in propertyMaster : r.prop_id = propId
    THEN CHOOSE r \in propertyMaster : r.prop_id = propId
    ELSE NoRow

\* a Parcel Detail value: kind is "null" (no detail), "record" (server
\* payload), "notFound" (synthetic {master_id, __notFound: true}) or
\* "props" (the properties of a rendered feature)
Info(kind, mid, pid) == [kind |-> kind, master_id |-> mid, prop_id |-> pid]
NullInfo == Info("null", Nil, Nil)
NotFoundInfo(mid) == Info("notFound", mid, Nil)

toPayload(row) ==
  IF row = NoRow THEN NullInfo ELSE Info("record", row.master_id, row.prop_id)

\* (variant: no fallback to the prop_id lookup for a UUID-shaped id)
DetailsRouteNoFallback(id) ==
  toPayload(IF UuidShaped(id) THEN getDetailsByMasterId(id)
                              ELSE getDetailsByPropId(id))

\* GET /api/details/:id  ->  the `details` member of the JSON answer
DetailsRoute(id) ==
  LET row1 == IF UuidShaped(id) THEN getDetailsByMasterId(id) ELSE NoRow
      row  == IF row1 = NoRow THEN getDetailsByPropId(id) ELSE row1
  IN toPayload(row)

\* (variant: the lookup order of /api/details)
ParcelsRouteMasterIdFirst(pid) ==
  LET row1 == IF UuidShaped(pid) THEN getDetailsByMasterId(pid) ELSE NoRow
      row  == IF row1 = NoRow THEN getDetailsByPropId(pid) ELSE row1
  IN toPayload(row)

\* GET /api/parcels/:parcel_id  ->  the `details` member of the JSON answer
ParcelsRoute(pid) == toPayload(getDetailsByPropId(pid))

\* what fetch() and the body parser can do to one request:
\*   "ok"         2xx answer, JSON body parsed
\*   "nonjson"    2xx answer whose content type is not JSON
\*   "http"       non-2xx answer
\*   "network"    fetch() rejects
\*   "unparsable" 2xx answer, JSON content type, res.json() rejects
Outcomes == {"ok", "nonjson", "http", "network", "unparsable"}
Failures == {"http", "network", "unparsable"}

\* the values safeFetch deals with: `thrown` marks an exception leaving the
\* function, `error` is __error, `details` the member the handlers read
\* (NullInfo when the value has none, or is null)
FetchBody(details) ==
  [thrown |-> FALSE, error |-> FALSE, status |-> Undef, statusText |-> Undef,
   details |-> details]
FetchError(status, statusText) ==
  [thrown |-> FALSE, error |-> TRUE, status |-> status,
   statusText |-> statusText, details |-> NullInfo]
FetchThrown(message) ==
  [thrown |-> TRUE, error |-> FALSE, status |-> Undef, statusText |-> message,
   details |-> NullInfo]

\* the try block of safeFetch
safeFetchTry(details, outcome) ==
  CASE outcome = "ok"         -> FetchBody(details)
    [] outcome = "nonjson"    -> FetchBody(NullInfo)
    [] outcome = "http"       -> FetchError("n500", "Internal Server Error")
    [] outcome = "network"    -> FetchThrown("Failed to fetch")
    [] outcome = "unparsable" -> FetchThrown("Unexpected token")

\* (variant: the exception is not caught)
safeFetchUncaught(details, outcome) == safeFetchTry(details, outcome)

\* safeFetch(url): the try block, and the catch block that turns an
\* exception into {__error: true, status: 0, statusText: err.message}
safeFetch(details, outcome) ==
  LET r == safeFetchTry(details, outcome)
  IN IF r.thrown THEN FetchError("n0", r.statusText) ELSE r

(* ------------------------------ the map -------------------------------- *)
\* initialOverlays (the first of the six entries)
OverlayOrder == <<"build_insp">>
OverlayIds == {OverlayOrder[i] : i \in 1..Len(OverlayOrder)}

\* the rendered features of layer "parcels-fill", in rendering order:
\* id is feature.id (Undef when the tile carries no promoted id),
\* master_id / prop_id / parcel_id are feature.properties
Rendered ==
  << [id |-> "u1",  master_id |-> "u1", prop_id |-> "p1", parcel_id |-> Nil],
     [id |-> "n7",  master_id |-> Nil,  prop_id |-> Nil,  parcel_id |-> "k7"],
     [id |-> Undef, master_id |-> Nil,  prop_id |-> Nil,  parcel_id |-> Nil],
     [id |-> "n8",  master_id |-> "u1", prop_id |-> "p1", parcel_id |-> Nil] >>

NoFeature == 0

\* click points: feat is the index of the topmost parcels-fill feature at
\* the point (NoFeature when there is none), ov the overlays that have a
\* feature there
Points ==
  { [feat |-> 0, ov |-> {"build_insp"}],
    [feat |-> 1, ov |-> {"build_insp"}],
    [feat |-> 2, ov |-> {}],
    [feat |-> 3, ov |-> {"build_insp"}],
    [feat |-> 4, ov |-> {}] }

NoPoint == [feat |-> 0, ov |-> {}]

\* f.properties handed to setParcelInfo
PropsInfo(f) ==
  [kind |-> "props", master_id |-> f.master_id, prop_id |-> f.prop_id,
   parcel_id |-> f.parcel_id]

\* fid of the click handler
Fid(f) == IF f.id # Undef THEN f.id ELSE JsOr(f.master_id, Undef)

\* (variant: "N/A" stands in for a missing identifier)
MasterIdDefaulted(f) ==
  JsOr(f.master_id, IF f.id # Undef THEN JsString(f.id) ELSE "N/A")

\* masterId of the click handler
MasterId(f) ==
  JsOr(f.master_id, IF f.id # Undef THEN JsString(f.id) ELSE Nil)

(* ------------------------------- state --------------------------------- *)
VARIABLES
  mapState,            \* "none" | "created" | "loading" | "loaded"
  parcelsFill,         \* source "parcels" and layer "parcels-fill" exist
  status,              \* status line
  sidebarOpen,         \* the Panel is shown
  parcelInfo,          \* Parcel Detail
  overlayInfo,         \* overlay hits shown in the Panel (<<>> = null)
  fetching,            \* busy indicator
  overlays,            \* overlay id -> enabled
  overlaysRef,         \* overlaysRef.current
  layerVis,            \* overlay id -> the fill layer is "visible"
  selectedFeatureRef,  \* selectedFeatureRef.current
  featureState,        \* feature ids whose feature-state has selected: true
  highlightSource,     \* features held by "highlight-source"
  lastFetchedIdRef,    \* lastFetchedIdRef.current (Pending Fetch Token)
  urlId,               \* ?id= of the page URL (Nil when absent)
  inflight,            \* pending continuations: one per handler suspended
                       \* at an await and one per setTimeout callback (a
                       \* bag: they run in any order)
  hLastClickId,        \* history: the identifier the most recent click on
                       \* an identified feature resolved to (Nil before)
  hAlert               \* history: the message of the window.alert() raised
                       \* by the handler that ran last (Nil when it raised
                       \* none)

\* the CSV export: the Parcel Detail handed to it and the rows it built
VARIABLES
  csvInfo,             \* parcelInfoRef.current at the export (NoCsvInfo before)
  csvRows              \* the rows of the file (<<>> before)

appVars == << mapState, parcelsFill, status, sidebarOpen, parcelInfo, overlayInfo, fetching,
              overlays, overlaysRef, layerVis, selectedFeatureRef, featureState,
              highlightSource, lastFetchedIdRef, urlId, inflight, hLastClickId,
              hAlert >>

csvVars == << csvInfo, csvRows >>

\* the standalone script: its two globals, the parts of the page and of
\* the map it writes, and its suspended handlers
VARIABLES
  isLoading,           \* let isLoading
  highlightedId,       \* let highlightedId
  tileFeatureState,    \* ids whose feature-state has selected: true
  infoEl,              \* what #info shows
  extraInfo,           \* #extra-info: "absent", "hidden" or "shown"
  layerToggle,         \* .layer-toggle checkboxes: overlay -> checked
  loadingEl,           \* #loading is displayed
  searchBtnDisabled,   \* searchBtn.disabled
  fetches,             \* bag of suspended handlers (pending fetch calls)
  alertMsg,            \* message of the alert() raised by the handler that ran last
  hIgnoredClick        \* history: a click returned at the isLoading guard
                       \* since the last accepted click

scriptVars == << isLoading, highlightedId, tileFeatureState, infoEl, extraInfo,
                 layerToggle, loadingEl, searchBtnDisabled, fetches, alertMsg,
                 hIgnoredClick >>

\* what the handlers of the React application never touch
nonAppVars == << serverVars, csvVars, scriptVars >>

vars == << appVars, serverVars, csvVars, scriptVars >>

NoRequest == [route |-> "none", id |-> Nil, db |-> "ok"]
NoResponse == [status |-> Undef, details |-> Undef, error |-> Undef]
NoCsvInfo == [keys |-> <<>>, land |-> 0, impr |-> 0]

NoSel == [kind |-> "null", id |-> Undef]
IdSel(fid) == [kind |-> "id", id |-> fid]
EphemeralSel == [kind |-> "ephemeral", id |-> Undef]

\* map.getSource("highlight-source") / map.getLayer(`${id}-fill`): added by
\* the load handler, each in a try block of its own
LayersExist == mapState = "loaded"

\* the server has handled no request
ServerIdle ==
  /\ srvReq = NoRequest
  /\ srvRes = NoResponse

\* no export has run
CsvIdle ==
  /\ csvInfo = NoCsvInfo
  /\ csvRows = <<>>

\* what #info shows: kind is "prompt", "none", "loading", "notFound" or
\* "details"; id the master_id it prints
InfoView(kind, id) == [kind |-> kind, id |-> id]

\* the standalone script after it was loaded
ScriptIdle ==
  /\ isLoading = FALSE
  /\ highlightedId = Nil
  /\ tileFeatureState = {}
  /\ infoEl = InfoView("prompt", Nil)
  /\ extraInfo = "hidden"
  /\ layerToggle = [o \in OverlayIds |-> FALSE]
  /\ loadingEl = FALSE
  /\ searchBtnDisabled = FALSE
  /\ fetches = EmptyBag
  /\ alertMsg = Nil
  /\ hIgnoredClick = FALSE

\* the React application after its first render
AppInit ==
  /\ mapState = "none"
  /\ parcelsFill = FALSE
  /\ status = "Initializing map..."
  /\ sidebarOpen = FALSE
  /\ parcelInfo = NullInfo
  /\ overlayInfo = <<>>
  /\ fetching = FALSE
  /\ overlays = [o \in OverlayIds |-> FALSE]
  /\ overlaysRef = [o \in OverlayIds |-> FALSE]
  /\ layerVis = [o \in OverlayIds |-> FALSE]
  /\ selectedFeatureRef = NoSel
  /\ featureState = {}
  /\ highlightSource = {}
  /\ lastFetchedIdRef = Nil
  /\ urlId \in {Nil, "u1", "7"}
  /\ inflight = EmptyBag
  /\ hLastClickId = Nil
  /\ hAlert = Nil

Init ==
  /\ AppInit
  /\ propertyMaster = PropertyMaster
  /\ ServerIdle
  /\ CsvIdle
  /\ ScriptIdle


(* --------------------------- shared helpers ---------------------------- *)
\* clearHighlight(): the three things it leaves behind.  It returns at once
\* when mapRef.current is not set.
\* (variant: the feature-state flag of the previous selection is kept)
clearHighlightFeatureStateKept == featureState

clearHighlightFeatureState ==
  IF mapState # "none" /\ selectedFeatureRef.kind = "id"
    THEN featureState \ {selectedFeatureRef.id}
    ELSE featureState

\* (variant: the ephemeral highlight source is not emptied)
clearHighlightSourceKept == highlightSource

clearHighlightSource ==
  IF LayersExist THEN {} ELSE highlightSource

clearHighlightRef ==
  IF mapState # "none" THEN NoSel ELSE selectedFeatureRef

\* (variant: the Panel is left as it is)
clearSelectionPanelKept ==
  /\ parcelInfo' = NullInfo
  /\ overlayInfo' = <<>>
  /\ featureState' = clearHighlightFeatureState
  /\ highlightSource' = clearHighlightSource
  /\ selectedFeatureRef' = clearHighlightRef
  /\ UNCHANGED sidebarOpen
  /\ status' = "Selection cleared"

\* clearSelection()
clearSelection ==
  /\ parcelInfo' = NullInfo
  /\ overlayInfo' = <<>>
  /\ featureState' = clearHighlightFeatureState
  /\ highlightSource' = clearHighlightSource
  /\ selectedFeatureRef' = clearHighlightRef
  /\ sidebarOpen' = FALSE
  /\ status' = "Selection cleared"

\* the overlay part of the click handler: the enabled overlays of `ref`
\* whose fill layer exists, queried at the click point
OverlayProps(o, pt) == [overlay |-> o, at |-> pt.feat]

\* overlay o contributes at the point: it is enabled in `ref`, its fill
\* layer exists, and queryRenderedFeatures finds a feature of it there
\* (a layer whose visibility is "none" renders no feature)
\* (variant: every overlay with a feature at the point contributes)
OverlayHitAnyLayer(o, pt, ref) == o \in pt.ov

OverlayHit(o, pt, ref) ==
  ref[o] /\ LayersExist /\ layerVis[o] /\ o \in pt.ov

CollectOverlays(pt, ref) ==
  LET hit == SelectSeq(OverlayOrder, LAMBDA o : OverlayHit(o, pt, ref))
  IN [i \in 1..Len(hit) |-> [layer |-> hit[i], props |-> OverlayProps(hit[i], pt)]]

\* a suspended handler
Pending(kind, id, pt, en, text) ==
  [kind |-> kind, id |-> id, pt |-> pt, en |-> en, text |-> text]

NoEnabled == {}

\* the overlays enabled in `ref` that have a feature at the point
EnabledAt(pt, ref) == {o \in pt.ov : ref[o]}

\* the callback scheduled by setTimeout(() => setStatus("Ready"), 1400)
ReadyTimer == Pending("timer", Nil, NoPoint, NoEnabled, "")

\* (variant: no timeout is scheduled)
setTimeoutReadyDropped(bag) == bag

\* setTimeout(() => setStatus("Ready"), 1400) on the pending continuations
setTimeoutReady(bag) == bag (+) SetToBag({ReadyTimer})

Suspend(req) == inflight (+) SetToBag({req})
Resume(req) == inflight (-) SetToBag({req})
NumPending == BagCardinality(inflight)

\* (variant: the layer is taken to exist)
getLayerParcelsFillAssumed == TRUE

\* mapRef.current?.getLayer("parcels-fill")
getLayerParcelsFill == parcelsFill

\* (variant: no guard)
DuplicateClickNever(masterId) == FALSE

\* the duplicate-click guard of the click handler
DuplicateClick(masterId) == lastFetchedIdRef = masterId

(* ------------------------------ actions -------------------------------- *)
\* Clear Selection button
ClearSelectionButton ==
  /\ clearSelection
  /\ UNCHANGED << mapState, parcelsFill, fetching, overlays, overlaysRef, layerVis,
                  lastFetchedIdRef, urlId, inflight >>
  /\ UNCHANGED hLastClickId
  /\ hAlert' = Nil
  /\ UNCHANGED nonAppVars

\* the Panel's close button
CloseSidebar ==
  /\ sidebarOpen
  /\ sidebarOpen' = FALSE
  /\ UNCHANGED << mapState, parcelsFill, status, parcelInfo, overlayInfo, fetching,
                  overlays, overlaysRef, layerVis, selectedFeatureRef,
                  featureState, highlightSource, lastFetchedIdRef, urlId,
                  inflight >>
  /\ UNCHANGED hLastClickId
  /\ hAlert' = Nil
  /\ UNCHANGED nonAppVars

\* toggleOverlay(id), with the effect that copies overlays to overlaysRef
toggleOverlay(id) ==
  /\ overlays' = [overlays EXCEPT ![id] = ~overlays[id]]
  /\ overlaysRef' = overlays'
  /\ layerVis' = IF LayersExist
                   THEN [layerVis EXCEPT ![id] = ~layerVis[id]]
                   ELSE layerVis
  /\ UNCHANGED << mapState, parcelsFill, status, sidebarOpen, parcelInfo, overlayInfo,
                  fetching, selectedFeatureRef, featureState, highlightSource,
                  lastFetchedIdRef, urlId, inflight >>
  /\ UNCHANGED hLastClickId
  /\ hAlert' = Nil
  /\ UNCHANGED nonAppVars

\* the animation-frame callback that constructs the map
MapCreate ==
  /\ mapState = "none"
  /\ mapState' = "created"
  /\ status' = "Loading map..."
  /\ UNCHANGED << parcelsFill, sidebarOpen, parcelInfo, overlayInfo, fetching,
                  overlays, overlaysRef, layerVis, selectedFeatureRef,
                  featureState, highlightSource, lastFetchedIdRef, urlId,
                  inflight >>
  /\ UNCHANGED hLastClickId
  /\ hAlert' = Nil
  /\ UNCHANGED nonAppVars

\* map 'load': up to the first await (the TileJSON fetch)
LoadStart ==
  /\ mapState = "created"
  /\ mapState' = "loading"
  /\ status' = "Map loaded - preparing data..."
  /\ UNCHANGED << parcelsFill, sidebarOpen, parcelInfo, overlayInfo, fetching,
                  overlays, overlaysRef, layerVis, selectedFeatureRef,
                  featureState, highlightSource, lastFetchedIdRef, urlId,
                  inflight >>
  /\ UNCHANGED hLastClickId
  /\ hAlert' = Nil
  /\ UNCHANGED nonAppVars

\* map 'load': sources and layers are added (`added` is FALSE when adding
\* the parcels source or layer throws), then the deep link is read
LoadLayers(added) ==
  /\ mapState = "loading"
  /\ NumPending < MaxInflight
  /\ mapState' = "loaded"
  /\ parcelsFill' = added
  /\ layerVis' = overlaysRef
  /\ status' = "Ready"
  /\ IF urlId # Nil
       THEN /\ fetching' = TRUE
            /\ inflight' = Suspend(Pending("deeplink", urlId, NoPoint, NoEnabled, ""))
            /\ UNCHANGED sidebarOpen
       ELSE /\ sidebarOpen' = FALSE
            /\ UNCHANGED << fetching, inflight >>
  /\ UNCHANGED << parcelInfo, overlayInfo, overlays, overlaysRef,
                  selectedFeatureRef, featureState, highlightSource,
                  lastFetchedIdRef, urlId >>
  /\ UNCHANGED hLastClickId
  /\ hAlert' = Nil
  /\ UNCHANGED nonAppVars

\* the deep-link fetch resolves (an exception at the await goes to the
\* empty catch block)
DeepLinkResolve(req, outcome) ==
  /\ BagIn(req, inflight)
  /\ req.kind = "deeplink"
  /\ LET resp == safeFetch(DetailsRoute(req.id), outcome)
     IN IF resp.thrown
          THEN UNCHANGED << fetching, parcelInfo, status, sidebarOpen >>
          ELSE /\ fetching' = FALSE
               /\ IF resp.details # NullInfo
                    THEN /\ parcelInfo' = resp.details
                         /\ status' = "Loaded from link"
                         /\ UNCHANGED sidebarOpen
                    ELSE /\ sidebarOpen' = FALSE
                         /\ UNCHANGED << parcelInfo, status >>
  /\ inflight' = Resume(req)
  /\ UNCHANGED << mapState, parcelsFill, overlayInfo, overlays, overlaysRef, layerVis,
                  selectedFeatureRef, featureState, highlightSource,
                  lastFetchedIdRef, urlId >>
  /\ UNCHANGED hLastClickId
  /\ hAlert' = Nil
  /\ UNCHANGED nonAppVars

\* map 'click' handler, up to its return or its await
Click(pt) ==
  /\ mapState # "none"
  /\ IF ~getLayerParcelsFill \/ pt.feat = NoFeature
       THEN /\ clearSelection
            /\ UNCHANGED << fetching, lastFetchedIdRef, urlId, inflight >>
       ELSE LET f == Rendered[pt.feat]
                fid == Fid(f)
                masterId == MasterId(f)
            IN /\ IF fid # Undef
                    THEN /\ featureState' = clearHighlightFeatureState \cup {fid}
                         /\ highlightSource' = clearHighlightSource
                         /\ selectedFeatureRef' = IdSel(fid)
                    ELSE /\ featureState' = clearHighlightFeatureState
                         /\ highlightSource' = {pt.feat}
                         /\ selectedFeatureRef' = EphemeralSel
               /\ IF masterId = Nil
                    THEN /\ parcelInfo' = NotFoundInfo("N/A")
                         /\ sidebarOpen' = TRUE
                         /\ UNCHANGED << fetching, lastFetchedIdRef, urlId,
                                         inflight >>
                    ELSE IF DuplicateClick(masterId)
                    THEN /\ sidebarOpen' = TRUE
                         /\ UNCHANGED << parcelInfo, fetching,
                                         lastFetchedIdRef, urlId, inflight >>
                    ELSE /\ NumPending < MaxInflight
                         /\ lastFetchedIdRef' = masterId
                         /\ urlId' = masterId
                         /\ fetching' = TRUE
                         /\ inflight' = Suspend(Pending("click", masterId, pt, EnabledAt(pt, overlaysRef), ""))
                         /\ UNCHANGED << parcelInfo, sidebarOpen >>
               /\ UNCHANGED << overlayInfo, status >>
  /\ hLastClickId' = IF getLayerParcelsFill /\ pt.feat # NoFeature
                           /\ MasterId(Rendered[pt.feat]) # Nil
                       THEN MasterId(Rendered[pt.feat])
                       ELSE hLastClickId
  /\ UNCHANGED << mapState, parcelsFill, overlays, overlaysRef, layerVis >>
  /\ hAlert' = Nil
  /\ UNCHANGED nonAppVars

\* (variant: the not-found record is not tagged with the identifier)
ClickDetailUntagged(masterId, resp) ==
  IF resp.details # NullInfo THEN resp.details ELSE NotFoundInfo("N/A")

\* the Parcel Detail the click handler sets from the answer
ClickDetail(masterId, resp) ==
  IF resp.details # NullInfo THEN resp.details ELSE NotFoundInfo(masterId)

\* map 'click' handler, from the answer of the detail fetch to the end (an
\* exception at the await goes to the catch block, which only logs)
ClickFetchResolve(req, outcome) ==
  /\ BagIn(req, inflight)
  /\ req.kind = "click"
  /\ LET resp == safeFetch(DetailsRoute(req.id), outcome)
         overlayFeats == CollectOverlays(req.pt, overlaysRef)
     IN IF resp.thrown
          THEN UNCHANGED << fetching, parcelInfo, sidebarOpen, status,
                            overlayInfo >>
          ELSE /\ fetching' = FALSE
               /\ parcelInfo' = ClickDetail(req.id, resp)
               /\ sidebarOpen' = TRUE
               /\ status' = "Parcel details loaded"
               /\ overlayInfo' = overlayFeats
  /\ inflight' = Resume(req)
  /\ UNCHANGED << mapState, parcelsFill, overlays, overlaysRef, layerVis,
                  selectedFeatureRef, featureState, highlightSource,
                  lastFetchedIdRef, urlId >>
  /\ UNCHANGED hLastClickId
  /\ hAlert' = Nil
  /\ UNCHANGED nonAppVars


\* exportCSV() as the application sees it: without a Parcel Detail it only
\* raises an alert; otherwise it hands a file to the browser (its rows are
\* CsvRows, applied by CsvExport) and changes nothing of the application
exportCSV ==
  /\ hAlert' = IF parcelInfo = NullInfo
                 THEN "No parcel selected to export."
                 ELSE Nil
  /\ UNCHANGED << mapState, parcelsFill, status, sidebarOpen, parcelInfo,
                  overlayInfo, fetching, overlays, overlaysRef, layerVis,
                  selectedFeatureRef, featureState, highlightSource,
                  lastFetchedIdRef, urlId, inflight >>
  /\ UNCHANGED hLastClickId
  /\ UNCHANGED nonAppVars

(* ------------------------------- search -------------------------------- *)
\* what the user may have typed into the search box (already trimmed)
SearchTexts == {"p1", "U1", "zz"}

\* handleSearch, up to its return or its await
handleSearch(text) ==
  /\ IF text = ""
       THEN /\ status' = "Enter parcel id"
            /\ UNCHANGED inflight
       ELSE /\ NumPending < MaxInflight
            /\ status' = "Searching..."
            /\ inflight' = Suspend(Pending("search", Nil, NoPoint, NoEnabled, text))
  /\ UNCHANGED << mapState, parcelsFill, sidebarOpen, parcelInfo, overlayInfo,
                  fetching, overlays, overlaysRef, layerVis,
                  selectedFeatureRef, featureState, highlightSource,
                  lastFetchedIdRef, urlId >>
  /\ UNCHANGED hLastClickId
  /\ hAlert' = Nil
  /\ UNCHANGED nonAppVars

\* (variant: the text is compared as typed)
SearchMatchesCaseSensitive(f, text) ==
  text \in { JsOr(f.master_id, ""), JsOr(f.prop_id, ""), JsOr(f.parcel_id, "") }

\* the predicate of rendered.find(...)
SearchMatches(f, text) ==
  ToLowerCase(text) \in { ToLowerCase(JsOr(f.master_id, "")),
                          ToLowerCase(JsOr(f.prop_id, "")),
                          ToLowerCase(JsOr(f.parcel_id, "")) }

\* rendered.find(...): index of the first match, NoFeature when none
FindRendered(text) ==
  IF \E k \in 1..Len(Rendered) : SearchMatches(Rendered[k], text)
    THEN CHOOSE k \in 1..Len(Rendered) :
           /\ SearchMatches(Rendered[k], text)
           /\ \A j \in 1..(k - 1) : ~SearchMatches(Rendered[j], text)
    ELSE NoFeature

\* handleSearch, from the answer of the server lookup to the end
\* (.catch(() => null) turns an exception at the await into null)
SearchResolve(req, outcome) ==
  /\ BagIn(req, inflight)
  /\ req.kind = "search"
  /\ LET text == req.text
         resp == safeFetch(ParcelsRoute(text), outcome)
         data == IF resp.thrown THEN FetchBody(NullInfo) ELSE resp
         found == IF getLayerParcelsFill THEN FindRendered(text) ELSE NoFeature
     IN IF data.details # NullInfo
          THEN /\ parcelInfo' = data.details
               /\ sidebarOpen' = TRUE
               /\ status' = "Parcel found (server)"
               /\ urlId' = data.details.master_id
               /\ inflight' = Resume(req)
          ELSE IF found # NoFeature
          THEN /\ parcelInfo' = PropsInfo(Rendered[found])
               /\ sidebarOpen' = TRUE
               /\ status' = "Parcel found (rendered)"
               /\ inflight' = Resume(req)
               /\ UNCHANGED urlId
          ELSE /\ status' = "Parcel not found"
               /\ inflight' = setTimeoutReady(Resume(req))
               /\ UNCHANGED << parcelInfo, sidebarOpen, urlId >>
  /\ UNCHANGED << mapState, parcelsFill, overlayInfo, fetching, overlays,
                  overlaysRef, layerVis, selectedFeatureRef, featureState,
                  highlightSource, lastFetchedIdRef >>
  /\ UNCHANGED hLastClickId
  /\ hAlert' = Nil
  /\ UNCHANGED nonAppVars

\* the timeout callback of handleSearch
ReadyTimeout ==
  /\ BagIn(ReadyTimer, inflight)
  /\ inflight' = Resume(ReadyTimer)
  /\ status' = "Ready"
  /\ UNCHANGED << mapState, parcelsFill, sidebarOpen, parcelInfo, overlayInfo,
                  fetching, overlays, overlaysRef, layerVis,
                  selectedFeatureRef, featureState, highlightSource,
                  lastFetchedIdRef, urlId >>
  /\ UNCHANGED hLastClickId
  /\ hAlert' = Nil
  /\ UNCHANGED nonAppVars

(* -------------------------------- draw --------------------------------- *)
\* drawn polygons: ix are the rendered features turf.booleanIntersects
\* accepts, cin those whose centroid turf.booleanPointInPolygon accepts
Polygons ==
  { [ix |-> {},  cin |-> {}],
    [ix |-> {2}, cin |-> {1, 2}] }

\* (variant: no centroid test)
DrawSelectedIntersectsOnly(poly) ==
  SelectSeq([k \in 1..Len(Rendered) |-> k], LAMBDA k : k \in poly.ix)

\* the `selected` list of handleDrawCreateOrUpdate: indices in rendered order
DrawSelected(poly) ==
  SelectSeq([k \in 1..Len(Rendered) |-> k],
            LAMBDA k : k \in poly.ix \/ k \in poly.cin)

\* (variant: an empty result is reported as one feature)
CountStatusNeverZero(n) ==
  CASE n \in {0, 1} -> "1 features selected"
    [] n = 2 -> "2 features selected"
    [] n = 3 -> "3 features selected"
    [] OTHER -> "4 features selected"

\* `${selected.length} features selected`
CountStatus(n) ==
  CASE n = 0 -> "0 features selected"
    [] n = 1 -> "1 features selected"
    [] n = 2 -> "2 features selected"
    [] n = 3 -> "3 features selected"
    [] OTHER -> "4 features selected"

\* handleDrawCreateOrUpdate (draw.create / draw.update)
handleDrawCreateOrUpdate(poly) ==
  /\ mapState = "loaded"
  /\ IF ~getLayerParcelsFill
       THEN /\ status' = "Draw: layer not ready"
            /\ UNCHANGED << parcelInfo, sidebarOpen >>
       ELSE LET selected == DrawSelected(poly)
            IN /\ status' = CountStatus(Len(selected))
               /\ parcelInfo' = IF Len(selected) > 0
                                  THEN PropsInfo(Rendered[selected[1]])
                                  ELSE NullInfo
               /\ sidebarOpen' = TRUE
  /\ UNCHANGED << mapState, parcelsFill, overlayInfo, fetching, overlays,
                  overlaysRef, layerVis, selectedFeatureRef, featureState,
                  highlightSource, lastFetchedIdRef, urlId, inflight >>
  /\ UNCHANGED hLastClickId
  /\ hAlert' = Nil
  /\ UNCHANGED nonAppVars

\* draw.delete
DrawDelete ==
  /\ mapState = "loaded"
  /\ status' = "Draw cleared"
  /\ parcelInfo' = NullInfo
  /\ sidebarOpen' = FALSE
  /\ UNCHANGED << mapState, parcelsFill, overlayInfo, fetching, overlays,
                  overlaysRef, layerVis, selectedFeatureRef, featureState,
                  highlightSource, lastFetchedIdRef, urlId, inflight >>
  /\ UNCHANGED hLastClickId
  /\ hAlert' = Nil
  /\ UNCHANGED nonAppVars

(* ---------------------------- specification ---------------------------- *)
Next ==
  \/ MapCreate
  \/ LoadStart
  \/ \E added \in BOOLEAN : LoadLayers(added)
  \/ \E req \in BagToSet(inflight), outcome \in Outcomes : DeepLinkResolve(req, outcome)
  \/ \E pt \in Points : Click(pt)
  \/ \E req \in BagToSet(inflight), outcome \in Outcomes : ClickFetchResolve(req, outcome)
  \/ ClearSelectionButton
  \/ CloseSidebar
  \/ \E id \in OverlayIds : toggleOverlay(id)
  \/ \E text \in SearchTexts : handleSearch(text)
  \/ \E req \in BagToSet(inflight), outcome \in Outcomes : SearchResolve(req, outcome)
  \/ ReadyTimeout
  \/ \E poly \in Polygons : handleDrawCreateOrUpdate(poly)
  \/ DrawDelete
  \/ exportCSV

Spec == Init /\ [][Next]_vars

\* a scheduled timeout callback is eventually run by the event loop
LiveSpec == Spec /\ WF_vars(ReadyTimeout)


(* ------------------------------ the server ----------------------------- *)
\* rows the table may hold: a prop_id may itself be UUID-shaped
CandidateRows == { [master_id |-> "u1", prop_id |-> "p1"],
                   [master_id |-> "u3", prop_id |-> "p3"],
                   [master_id |-> "u2", prop_id |-> "u1"] }

\* the :id segments requested
RequestIds == {"u1", "u2", "u3", "p1", "p3", " p1 ", "zz"}

\* String.prototype.trim
Trim(raw) == IF raw = " p1 " THEN "p1" ELSE raw

\* pool.query: "ok" answers, "down" rejects
DbStates == {"ok", "down"}

JsonOk(details) == [status |-> "n200", details |-> details, error |-> Undef]
JsonError == [status |-> "n500", details |-> Undef, error |-> "Internal server error"]

\* app.get("/api/details/:id")
DetailsHandler(raw, db) ==
  LET id == Trim(raw) IN
  /\ srvReq' = [route |-> "details", id |-> raw, db |-> db]
  /\ srvRes' = IF db = "down" THEN JsonError ELSE JsonOk(DetailsRoute(id))
  /\ UNCHANGED << propertyMaster, appVars, csvVars, scriptVars >>

\* app.get("/api/parcels/:parcel_id")
ParcelsHandler(raw, db) ==
  LET pid == Trim(raw) IN
  /\ srvReq' = [route |-> "parcels", id |-> raw, db |-> db]
  /\ srvRes' = IF db = "down" THEN JsonError ELSE JsonOk(ParcelsRoute(pid))
  /\ UNCHANGED << propertyMaster, appVars, csvVars, scriptVars >>

\* the application with no deep link, before the map is created
AppIdle ==
  /\ AppInit
  /\ urlId = Nil

ServerInit ==
  /\ propertyMaster \in SUBSET CandidateRows
  /\ ServerIdle
  /\ AppIdle
  /\ CsvIdle
  /\ ScriptIdle

ServerNext ==
  \/ \E raw \in RequestIds, db \in DbStates : DetailsHandler(raw, db)
  \/ \E raw \in RequestIds, db \in DbStates : ParcelsHandler(raw, db)

ServerSpec == ServerInit /\ [][ServerNext]_vars


(* ----------------------------- the CSV export -------------------------- *)
\* the longest land_segments_list / improvements_list exported
MaxList == 7

\* Object.keys of a server payload, in the order toPayload writes them
PayloadKeys ==
  << "master_id", "prop_id", "address", "city", "zip", "situs_street_num",
     "situs_street_name", "geo_id", "block", "tract_or_lot", "prop_type_cd",
     "legal_desc", "legal_loc_desc", "legal_acreage", "land_acres",
     "market_value", "curr_assessed_val", "curr_land_val", "curr_imprv_val",
     "market_val", "assessed_val", "area_acres", "land_segments",
     "improvements", "land_segments_list", "improvements_list" >>

\* Object.keys of the synthetic not-found detail
NotFoundKeys == << "master_id", "__notFound" >>

\* a Parcel Detail as exportCSV sees it: its keys in insertion order and
\* the lengths of its two lists (0 when the member is absent)
CsvInfo(keys, land, impr) == [keys |-> keys, land |-> land, impr |-> impr]

CsvInfos ==
  { CsvInfo(PayloadKeys, n, m) : n \in 0..MaxList, m \in 0..MaxList }
    \cup { CsvInfo(NotFoundKeys, 0, 0) }

\* k.endsWith("_list")
EndsWithList(k) == k \in {"land_segments_list", "improvements_list"}

\* one row of the file: its first cell, as group[index].name (the header
\* and the base rows have no index)
Row(group, index, name) == [group |-> group, index |-> index, name |-> name]
HeaderRow == Row("Field", Nil, "Value")

LandFields == << "type", "acres", "value", "year" >>
ImprFields == << "type", "year", "area", "value" >>

\* list.forEach((s, i) => { rows.push x 4 })
ListRows(group, fields, n) ==
  [ j \in 1..(4 * n) |-> Row(group, (j - 1) \div 4, fields[((j - 1) % 4) + 1]) ]

\* Object.entries(info).filter(([k]) => !k.endsWith("_list")).map(...)
BaseRows(keys) ==
  LET kept == SelectSeq(keys, LAMBDA k : ~EndsWithList(k))
  IN [ j \in 1..Len(kept) |-> Row("base", Nil, kept[j]) ]

\* (variant: the list members are not filtered out of the base rows)
CsvRowsUnfiltered(info) ==
  << HeaderRow >> \o [ j \in 1..Len(info.keys) |-> Row("base", Nil, info.keys[j]) ]
    \o ListRows("land", LandFields, info.land)
    \o ListRows("impr", ImprFields, info.impr)

\* the rows exportCSV builds
CsvRows(info) ==
  << HeaderRow >> \o BaseRows(info.keys)
    \o ListRows("land", LandFields, info.land)
    \o ListRows("impr", ImprFields, info.impr)

\* exportCSV, from the rows on (info is not null)
CsvExport ==
  /\ csvRows' = CsvRows(csvInfo)
  /\ UNCHANGED << csvInfo, appVars, serverVars, scriptVars >>

CsvInit ==
  /\ csvInfo \in CsvInfos
  /\ csvRows = <<>>
  /\ AppIdle
  /\ propertyMaster = PropertyMaster
  /\ ServerIdle
  /\ ScriptIdle

CsvNext == CsvExport

CsvSpec == CsvInit /\ [][CsvNext]_vars


(* -------------------------- the standalone script ---------------------- *)
\* feature.properties.master_id (undefined when the tile has none)
ScriptMasterId(f) == IF f.master_id = Nil THEN Undef ELSE f.master_id

\* a suspended handler of the script: kind is "click" or "search", id the
\* identifier in the URL fetched, pt the click point
ScriptPending(kind, id, pt) == [kind |-> kind, id |-> id, pt |-> pt]

\* the number of pending fetch calls of click handlers
ClickFetches == BagCardinality([r \in { q \in BagToSet(fetches) : q.kind = "click" }
                                  |-> fetches[r]])

\* what fetch() and res.json() can do to one request of the script:
\*   "ok"         2xx answer with a JSON body
\*   "http"       status 500 with the JSON body {error}
\*   "network"    fetch() rejects
\*   "unparsable" res.json() rejects
ScriptOutcomes == {"ok", "http", "network", "unparsable"}

\* data.details of the answer (NullInfo when the body has no such member)
ScriptDetails(route, outcome) == IF outcome = "ok" THEN route ELSE NullInfo

\* map.setFeatureState({id}, {selected}) ; an undefined id is refused
SetSelected(state, id, selected) ==
  IF id = Undef THEN state
  ELSE IF selected THEN state \cup {id} ELSE state \ {id}

\* if (highlightedId !== null) setFeatureState(highlightedId, false);
\* highlightedId = id; setFeatureState(highlightedId, true)
MoveHighlight(id) ==
  LET cleared == IF highlightedId # Nil
                   THEN SetSelected(tileFeatureState, highlightedId, FALSE)
                   ELSE tileFeatureState
  IN /\ highlightedId' = id
     /\ tileFeatureState' = SetSelected(cleared, id, TRUE)

\* renderOverlayInfo(e), given whether #extra-info is in the page
renderOverlayInfo(present, pt) ==
  IF ~present THEN "absent"
  ELSE IF \E o \in pt.ov : layerToggle[o] THEN "shown" ELSE "hidden"

\* (variant: no guard)
ClickBlockedNever == FALSE

\* if (isLoading) return;
ClickBlocked == isLoading

\* map.on("click"), up to the await of fetch
ScriptClick(pt) ==
  /\ ClickFetches < MaxInflight
  /\ alertMsg' = Nil
  /\ IF ClickBlocked
       THEN /\ hIgnoredClick' = TRUE
            /\ UNCHANGED << isLoading, highlightedId, tileFeatureState, infoEl,
                            extraInfo, loadingEl, fetches >>
       ELSE IF pt.feat = NoFeature
         THEN /\ infoEl' = InfoView("none", Nil)
              /\ extraInfo' = "absent"
              /\ UNCHANGED << isLoading, highlightedId, tileFeatureState,
                              loadingEl, fetches, hIgnoredClick >>
         ELSE LET masterId == ScriptMasterId(Rendered[pt.feat]) IN
              /\ isLoading' = TRUE
              /\ loadingEl' = TRUE
              /\ MoveHighlight(masterId)
              /\ infoEl' = InfoView("loading", Nil)
              /\ extraInfo' = "absent"
              /\ fetches' = fetches (+) SetToBag({ScriptPending("click", masterId, pt)})
              /\ hIgnoredClick' = FALSE
  /\ UNCHANGED << layerToggle, searchBtnDisabled >>
  /\ UNCHANGED << appVars, serverVars, csvVars >>

\* map.on("click"), from the answer of fetch on
ScriptClickSettle(req, outcome) ==
  /\ BagIn(req, fetches)
  /\ req.kind = "click"
  /\ fetches' = fetches (-) SetToBag({req})
  /\ LET details == ScriptDetails(DetailsRoute(req.id), outcome)
         thrown == outcome \in {"network", "unparsable"}
         view == IF thrown THEN infoEl
                 ELSE IF details = NullInfo THEN InfoView("notFound", req.id)
                 ELSE InfoView("details", details.master_id)
     IN /\ infoEl' = view
        /\ alertMsg' = IF thrown THEN "Error fetching parcel details." ELSE Nil
        /\ extraInfo' = renderOverlayInfo(IF thrown THEN extraInfo # "absent"
                                                     ELSE view.kind = "details", req.pt)
  /\ isLoading' = FALSE
  /\ loadingEl' = FALSE
  /\ UNCHANGED << highlightedId, tileFeatureState, layerToggle,
                  searchBtnDisabled, hIgnoredClick >>
  /\ UNCHANGED << appVars, serverVars, csvVars >>

\* what the user may have typed into #parcelSearch (trimmed)
ScriptSearchTexts == {"", "p1", "p3", "zz"}

\* searchParcel, up to the await of fetch
searchParcel(input) ==
  /\ ~searchBtnDisabled
  /\ IF input = ""
       THEN /\ alertMsg' = "Enter Parcel ID."
            /\ UNCHANGED << loadingEl, searchBtnDisabled, fetches >>
       ELSE /\ alertMsg' = Nil
            /\ loadingEl' = TRUE
            /\ searchBtnDisabled' = TRUE
            /\ fetches' = fetches (+) SetToBag({ScriptPending("search", input, NoPoint)})
  /\ UNCHANGED << isLoading, highlightedId, tileFeatureState, infoEl, extraInfo,
                  layerToggle, hIgnoredClick >>
  /\ UNCHANGED << appVars, serverVars, csvVars >>

\* visibleFeatures.find(f => f.properties.master_id == masterId)
ScriptMatches(masterId) ==
  { i \in DOMAIN Rendered : Rendered[i].master_id = masterId }

\* searchParcel, from the answer of fetch on
searchParcelSettle(req, outcome) ==
  /\ BagIn(req, fetches)
  /\ req.kind = "search"
  /\ fetches' = fetches (-) SetToBag({req})
  /\ LET details == ScriptDetails(ParcelsRoute(req.id), outcome)
         thrown == outcome \in {"network", "unparsable"}
         matches == ScriptMatches(details.master_id)
     IN IF thrown
          THEN /\ alertMsg' = "Failed to fetch parcel."
               /\ UNCHANGED << highlightedId, tileFeatureState, infoEl, extraInfo >>
        ELSE IF details = NullInfo
          THEN /\ alertMsg' = "Parcel not found."
               /\ UNCHANGED << highlightedId, tileFeatureState, infoEl, extraInfo >>
        ELSE IF matches = {}
          THEN /\ alertMsg' = "Parcel geometry not found on map."
               /\ UNCHANGED << highlightedId, tileFeatureState, infoEl, extraInfo >>
        ELSE LET matched == Rendered[CHOOSE i \in matches : \A j \in matches : i <= j] IN
             /\ MoveHighlight(matched.id)
             /\ alertMsg' = "Coordinates missing or invalid for selected parcel."
             /\ infoEl' = InfoView("details", details.master_id)
             /\ extraInfo' = "hidden"
  /\ loadingEl' = FALSE
  /\ searchBtnDisabled' = FALSE
  /\ UNCHANGED << isLoading, layerToggle, hIgnoredClick >>
  /\ UNCHANGED << appVars, serverVars, csvVars >>

\* clearSearch
clearSearch ==
  /\ infoEl' = InfoView("prompt", Nil)
  /\ extraInfo' = "absent"
  /\ IF highlightedId # Nil
       THEN /\ tileFeatureState' = SetSelected(tileFeatureState, highlightedId, FALSE)
            /\ highlightedId' = Nil
       ELSE UNCHANGED << tileFeatureState, highlightedId >>
  /\ alertMsg' = Nil
  /\ UNCHANGED << isLoading, layerToggle, loadingEl, searchBtnDisabled, fetches,
                  hIgnoredClick >>
  /\ UNCHANGED << appVars, serverVars, csvVars >>

\* the change handler of a .layer-toggle checkbox
ScriptToggle(o) ==
  /\ layerToggle' = [layerToggle EXCEPT ![o] = ~@]
  /\ alertMsg' = Nil
  /\ UNCHANGED << isLoading, highlightedId, tileFeatureState, infoEl, extraInfo,
                  loadingEl, searchBtnDisabled, fetches, hIgnoredClick >>
  /\ UNCHANGED << appVars, serverVars, csvVars >>

\* the page as served: #extra-info may or may not be in it
ScriptInit ==
  /\ isLoading = FALSE
  /\ highlightedId = Nil
  /\ tileFeatureState = {}
  /\ infoEl = InfoView("prompt", Nil)
  /\ extraInfo \in {"absent", "hidden"}
  /\ layerToggle \in [OverlayIds -> BOOLEAN]
  /\ loadingEl = FALSE
  /\ searchBtnDisabled = FALSE
  /\ fetches = EmptyBag
  /\ alertMsg = Nil
  /\ hIgnoredClick = FALSE
  /\ AppIdle
  /\ propertyMaster = PropertyMaster
  /\ ServerIdle
  /\ CsvIdle

ScriptClickSettles ==
  \E req \in BagToSet(fetches), outcome \in ScriptOutcomes : ScriptClickSettle(req, outcome)

ScriptNext ==
  \/ \E pt \in Points : ScriptClick(pt)
  \/ ScriptClickSettles
  \/ \E input \in ScriptSearchTexts : searchParcel(input)
  \/ \E req \in BagToSet(fetches), outcome \in ScriptOutcomes : searchParcelSettle(req, outcome)
  \/ clearSearch
  \/ \E o \in OverlayIds : ScriptToggle(o)

ScriptSpec == ScriptInit /\ [][ScriptNext]_vars

\* a pending fetch of a click handler eventually resolves or rejects
ScriptLiveSpec == ScriptSpec /\ WF_vars(ScriptClickSettles)


(* ------------------------- selected / highlighted ---------------------- *)
\* the number of things drawn as selected: feature-state flags plus the
\* features of the ephemeral highlight source
NumHighlighted == Cardinality(featureState) + Cardinality(highlightSource)

\* a click on a feature has a detail fetch pending for identifier `id`
ClickPending(id) ==
  \E req \in BagToSet(inflight) : req.kind = "click" /\ req.id = id

(* -------------------------------- claims ------------------------------- *)

\* C1: a click-initiated detail fetch whose identifier no longer equals the
\* Pending Fetch Token when it resolves does not write Parcel Detail.
C1_StaleResultDiscarded ==
  [][ \A req \in BagToSet(inflight), outcome \in Outcomes :
        (ClickFetchResolve(req, outcome) /\ req.id # lastFetchedIdRef)
          => parcelInfo' = parcelInfo ]_vars

\* C2: in a run of clicks on features resolving to the same identifier (no
\* click on another identifier in between) the first click issues exactly
\* one detail fetch and every later one issues none: it opens the Panel and
\* leaves Parcel Detail and the Pending Fetch Token as they are.
C2_DuplicateClickGuard ==
  [][ \A pt \in Points :
        (Click(pt) /\ parcelsFill /\ pt.feat # NoFeature) =>
          LET f == Rendered[pt.feat]
              id == IF f.master_id # Nil THEN f.master_id
                    ELSE IF f.id = "n7" THEN "7" ELSE Nil
          IN /\ (id # Nil /\ id # hLastClickId) =>
                  /\ BagCardinality(inflight') = BagCardinality(inflight) + 1
                  /\ CopiesIn(Pending("click", id, pt, {o \in pt.ov : overlaysRef[o]}, ""),
                              inflight')
                       = CopiesIn(Pending("click", id, pt, {o \in pt.ov : overlaysRef[o]}, ""),
                                  inflight) + 1
             /\ (id # Nil /\ id = hLastClickId) =>
                  /\ inflight' = inflight
                  /\ parcelInfo' = parcelInfo
                  /\ lastFetchedIdRef' = lastFetchedIdRef
                  /\ sidebarOpen' ]_vars

\* C2 witness: feature 4 (identifier u1) was clicked while the only pending
\* fetch is the one issued by the click on feature 1 (identifier u1)
C2_Witness ==
  /\ selectedFeatureRef = IdSel("n8")
  /\ lastFetchedIdRef = "u1"
  /\ NumPending = 1
  /\ \E req \in BagToSet(inflight) : req.kind = "click" /\ req.pt.feat = 1
  /\ sidebarOpen

\* C3: at most one thing is highlighted on the map, counting feature-state
\* flags and the ephemeral highlight source; a click that highlights a
\* feature leaves nothing else highlighted.
C3_AtMostOneHighlight == NumHighlighted <= 1

\* C3 witness: feature 7 is highlighted while the fetch issued by an
\* earlier click on feature 1 (which highlighted u1) is still pending
C3_Witness ==
  /\ featureState = {"n7"}
  /\ highlightSource = {}
  /\ \E req \in BagToSet(inflight) : req.kind = "click" /\ req.pt.feat = 1

\* C4: a click at a point without a primary-layer feature releases the
\* highlight, empties Parcel Detail, closes the Panel and issues no fetch.
C4_EmptyClickClears ==
  [][ \A pt \in Points :
        (Click(pt) /\ pt.feat = NoFeature) =>
          /\ featureState' = {}
          /\ highlightSource' = {}
          /\ parcelInfo' = [kind |-> "null", master_id |-> Nil, prop_id |-> Nil]
          /\ ~sidebarOpen'
          /\ inflight' = inflight
          /\ fetching' = fetching ]_vars

\* C4 witness: the selection is cleared while the fetch of an earlier click
\* is still pending and the Pending Fetch Token still names that click
C4_Witness ==
  /\ status = "Selection cleared"
  /\ NumHighlighted = 0
  /\ ~sidebarOpen
  /\ lastFetchedIdRef = "7"
  /\ ClickPending("7")


\* C5: when a click's detail fetch for identifier X resolves, Parcel Detail
\* becomes the returned record, or the not-found record tagged X when none
\* was returned (no match, or a transport/HTTP failure), and the Panel opens.
C5_FetchResultApplied ==
  [][ \A req \in BagToSet(inflight), outcome \in Outcomes :
        ClickFetchResolve(req, outcome) =>
          /\ parcelInfo' =
               IF outcome = "ok" /\ DetailsRoute(req.id).kind = "record"
                 THEN DetailsRoute(req.id)
                 ELSE [kind |-> "notFound", master_id |-> req.id, prop_id |-> Nil]
          /\ sidebarOpen' ]_vars

\* C5 witness: the fetch for u1 (which the store holds) failed, and the
\* Panel shows the not-found record tagged u1
C5_Witness ==
  /\ parcelInfo = [kind |-> "notFound", master_id |-> "u1", prop_id |-> Nil]
  /\ sidebarOpen
  /\ status = "Parcel details loaded"

\* C6: a click on a feature without a resolvable identifier opens the Panel
\* with the synthetic not-found record, issues no fetch and leaves the
\* Pending Fetch Token and the URL id as they are.
C6_NoIdentifierClick ==
  [][ \A pt \in Points :
        ( /\ Click(pt)
          /\ parcelsFill
          /\ pt.feat # NoFeature
          /\ Rendered[pt.feat].master_id = Nil
          /\ Rendered[pt.feat].id = Undef ) =>
          /\ sidebarOpen'
          /\ parcelInfo' = [kind |-> "notFound", master_id |-> "N/A", prop_id |-> Nil]
          /\ inflight' = inflight
          /\ fetching' = fetching
          /\ lastFetchedIdRef' = lastFetchedIdRef
          /\ urlId' = urlId ]_vars

\* C6 witness: the feature without identifier is drawn in the ephemeral
\* highlight source and the Panel shows the synthetic record, while the
\* token and the URL still name an earlier selection
C6_Witness ==
  /\ highlightSource = {3}
  /\ selectedFeatureRef = EphemeralSel
  /\ parcelInfo = [kind |-> "notFound", master_id |-> "N/A", prop_id |-> Nil]
  /\ sidebarOpen
  /\ lastFetchedIdRef = "u1"
  /\ urlId = "u1"

\* C7: after clearSelection() nothing is highlighted, Parcel Detail and
\* overlay info are empty, the Panel is closed and the status is reset.
C7_ClearSelection ==
  [][ ClearSelectionButton =>
        /\ featureState' = {}
        /\ highlightSource' = {}
        /\ selectedFeatureRef' = NoSel
        /\ parcelInfo' = [kind |-> "null", master_id |-> Nil, prop_id |-> Nil]
        /\ overlayInfo' = <<>>
        /\ ~sidebarOpen'
        /\ status' = "Selection cleared" ]_vars

\* C7 witness: everything is cleared after a selection whose fetch had
\* completed (token set, nothing pending) with the overlay switched on
C7_Witness ==
  /\ status = "Selection cleared"
  /\ parcelInfo = NullInfo
  /\ overlayInfo = <<>>
  /\ ~sidebarOpen
  /\ NumHighlighted = 0
  /\ selectedFeatureRef = NoSel
  /\ lastFetchedIdRef = "u1"
  /\ NumPending = 0
  /\ overlays["build_insp"]

\* C8: every entry the click handler places in overlay info comes from an
\* overlay that is enabled at the moment the collection runs.
C8_OnlyEnabledOverlays ==
  [][ \A req \in BagToSet(inflight), outcome \in Outcomes :
        ClickFetchResolve(req, outcome) =>
          \A k \in 1..Len(overlayInfo') : overlays[overlayInfo'[k].layer] ]_vars

\* C8 witness: a collection has placed an entry of the enabled overlay
C8_Witness ==
  /\ Len(overlayInfo) = 1
  /\ overlayInfo[1].layer = "build_insp"
  /\ overlays["build_insp"]
  /\ status = "Parcel details loaded"

\* the overlay info a collection at point pt yields when exactly the
\* overlays in `en` are enabled (and rendered)
ExpectedOverlayInfo(pt, en) ==
  LET hit == SelectSeq(OverlayOrder, LAMBDA o : o \in en /\ o \in pt.ov)
  IN [i \in 1..Len(hit) |-> [layer |-> hit[i], props |-> [overlay |-> hit[i], at |-> pt.feat]]]

\* C9: the overlay collection of a click on a feature uses the overlays
\* enabled at click time, whatever is toggled while the fetch is pending,
\* and is also performed by the clicks that issue no fetch.
C9_OverlayCollectionAtClickTime ==
  [][ /\ \A req \in BagToSet(inflight), outcome \in Outcomes :
           ClickFetchResolve(req, outcome) =>
             overlayInfo' = ExpectedOverlayInfo(req.pt, req.en)
      /\ \A pt \in Points :
           ( /\ Click(pt)
             /\ parcelsFill
             /\ pt.feat # NoFeature
             /\ inflight' = inflight ) =>
             overlayInfo' = ExpectedOverlayInfo(pt, {o \in OverlayIds : overlays[o]})
    ]_vars

\* C10: a click at a point with no primary-layer feature and one feature of
\* an enabled overlay clears the Selection and fills overlay info with that
\* overlay feature's properties.
C10_EmptyClickOverlayInfo ==
  [][ \A pt \in Points :
        ( /\ Click(pt)
          /\ parcelsFill
          /\ pt.feat = NoFeature
          /\ pt.ov = {"build_insp"}
          /\ overlays["build_insp"]
          /\ layerVis["build_insp"] ) =>
          /\ parcelInfo' = NullInfo
          /\ NumHighlighted' = 0
          /\ overlayInfo' = ExpectedOverlayInfo(pt, {"build_insp"}) ]_vars

(* ------------------------------- search -------------------------------- *)
\* the search text equals (ignoring case) one of the three identifier
\* properties of rendered feature k
TextNamesFeature(text, k) ==
  LET lower(t) == CASE t = "U1" -> "u1" [] t = "P1" -> "p1" [] OTHER -> t
      f == Rendered[k]
  IN \/ (f.master_id # Nil /\ lower(f.master_id) = lower(text))
     \/ (f.prop_id # Nil /\ lower(f.prop_id) = lower(text))
     \/ (f.parcel_id # Nil /\ lower(f.parcel_id) = lower(text))

\* the server lookup of a search for `text` that ends as `outcome` hands
\* back a record
ServerRecord(text, outcome) ==
  outcome = "ok" /\ \E r \in PropertyMaster : r.prop_id = text

\* some rendered feature is named by the text
RenderedMatch(text) ==
  parcelsFill /\ \E k \in 1..Len(Rendered) : TextNamesFeature(text, k)

\* the step consumes the pending continuation req (every step that resumes
\* a suspended handler does)
Resumes(req) == CopiesIn(req, inflight') < CopiesIn(req, inflight)

\* C11: a search whose text matches no server record and no rendered
\* feature sets the status to "Parcel not found" and schedules the timeout
\* that sets it to "Ready"; the status then does become "Ready"; Parcel
\* Detail, the Panel's open/closed state, the highlight and the URL id are
\* left as they were by the search.
C11_SearchNotFound ==
  /\ [][ \A req \in BagToSet(inflight) : Resumes(req) =>
          \A outcome \in Outcomes :
            ( /\ SearchResolve(req, outcome)
              /\ ~ServerRecord(req.text, outcome)
              /\ ~RenderedMatch(req.text) ) =>
              /\ status' = "Parcel not found"
              /\ CopiesIn(ReadyTimer, inflight') = CopiesIn(ReadyTimer, inflight) + 1
              /\ UNCHANGED << parcelInfo, sidebarOpen, featureState,
                              highlightSource, selectedFeatureRef, urlId >> ]_vars
  /\ [][ (\E text \in SearchTexts : handleSearch(text)) =>
            UNCHANGED << parcelInfo, sidebarOpen, featureState,
                         highlightSource, selectedFeatureRef, urlId >> ]_vars
  /\ [][ ReadyTimeout =>
            /\ status' = "Ready"
            /\ UNCHANGED << parcelInfo, sidebarOpen, featureState,
                            highlightSource, selectedFeatureRef, urlId >> ]_vars
  /\ (status = "Parcel not found") ~> (status = "Ready")

\* C11 witness: the search found nothing while a parcel is selected: the
\* status says so, the timeout is pending, and the selection is intact
C11_Witness ==
  /\ status = "Parcel not found"
  /\ BagIn(ReadyTimer, inflight)
  /\ parcelInfo.kind = "record"
  /\ sidebarOpen
  /\ featureState = {"u1"}
  /\ urlId = "u1"

\* C12: when the server lookup of a search hands back a record, that record
\* becomes Parcel Detail whatever the rendered features are; when it hands
\* back none or fails, the first rendered feature (in rendered order) one of
\* whose master/prop/parcel id properties equals the text ignoring case
\* becomes Parcel Detail, with its rendered properties.
C12_SearchOrder ==
  [][ \A req \in BagToSet(inflight) : Resumes(req) =>
      \A outcome \in Outcomes :
        SearchResolve(req, outcome) =>
          IF ServerRecord(req.text, outcome)
            THEN /\ \E r \in PropertyMaster :
                      /\ r.prop_id = req.text
                      /\ parcelInfo' = [kind |-> "record", master_id |-> r.master_id,
                                        prop_id |-> r.prop_id]
                 /\ status' = "Parcel found (server)"
                 /\ sidebarOpen'
            ELSE RenderedMatch(req.text) =>
                 /\ \E k \in 1..Len(Rendered) :
                      /\ TextNamesFeature(req.text, k)
                      /\ \A j \in 1..(k - 1) : ~TextNamesFeature(req.text, j)
                      /\ parcelInfo' = [kind |-> "props",
                                        master_id |-> Rendered[k].master_id,
                                        prop_id |-> Rendered[k].prop_id,
                                        parcel_id |-> Rendered[k].parcel_id]
                 /\ status' = "Parcel found (rendered)"
                 /\ sidebarOpen' ]_vars

\* C12 witness: a search was answered from the rendered features (the
\* first of the two features carrying master_id u1) while the Pending
\* Fetch Token names the other parcel
C12_Witness ==
  /\ status = "Parcel found (rendered)"
  /\ parcelInfo = PropsInfo(Rendered[1])
  /\ sidebarOpen
  /\ lastFetchedIdRef = "7"

(* ------------------------------ page URL ------------------------------- *)
\* the identifier of a Parcel Detail: its master_id, else its parcel_id
DetailId(info) ==
  IF info.master_id # Nil THEN info.master_id
  ELSE IF info.kind = "props" THEN info.parcel_id ELSE Nil

\* C13: every successful selection writes the URL id: after a click on an
\* identified feature, after a search that found a parcel (on the server
\* or among the rendered features) and after a draw completion with at
\* least one match, the URL id is the identifier of the selected parcel.
C13_UrlWrittenOnEverySelection ==
  [][ /\ \A pt \in Points :
           ( /\ Click(pt)
             /\ parcelsFill
             /\ pt.feat # NoFeature
             /\ \/ Rendered[pt.feat].master_id # Nil
                \/ Rendered[pt.feat].id # Undef ) => urlId' = hLastClickId'
      /\ \A req \in BagToSet(inflight), outcome \in Outcomes :
           ( /\ SearchResolve(req, outcome)
             /\ status' \in {"Parcel found (server)", "Parcel found (rendered)"} ) =>
             urlId' = DetailId(parcelInfo')
      /\ \A poly \in Polygons :
           ( /\ handleDrawCreateOrUpdate(poly)
             /\ parcelsFill
             /\ poly.ix \cup poly.cin # {} ) =>
             urlId' = DetailId(parcelInfo') ]_vars

\* C14: a click that finds no feature, and the Clear Selection button,
\* remove the id from the page URL and set the status to "Selection
\* cleared".
C14_ClearRemovesUrlId ==
  [][ ( \/ ClearSelectionButton
        \/ \E pt \in Points : Click(pt) /\ pt.feat = NoFeature ) =>
        /\ urlId' = Nil
        /\ status' = "Selection cleared" ]_vars

\* the identifiers a click on a rendered feature writes to the URL
ClickUrlIds ==
  {MasterId(Rendered[k]) : k \in 1..Len(Rendered)} \ {Nil}

\* the Parcel Detail a click that wrote ?id=X ends with when its fetch is
\* answered by the store
ClickRoundTripDetail(X) == ClickDetail(X, safeFetch(DetailsRoute(X), "ok"))

\* C15: for every identifier X a click writes to the URL, a page load with
\* ?id=X answered by the same store ends with the Parcel Detail the click
\* ended with: the found record, or the not-found record for X.
C15_DeepLinkRoundTrip ==
  [][ \A req \in BagToSet(inflight) :
        ( /\ DeepLinkResolve(req, "ok")
          /\ req.id \in ClickUrlIds ) =>
          parcelInfo' = ClickRoundTripDetail(req.id) ]_vars

(* -------------------------------- draw --------------------------------- *)
\* C16: the result set of a draw completion holds exactly the rendered
\* features that intersect the polygon or whose centroid lies inside it,
\* each of them once; its size is what the status reports.
C16_DrawIntersectOrCentroid ==
  [][ \A poly \in Polygons :
        (handleDrawCreateOrUpdate(poly) /\ parcelsFill) =>
          LET sel == DrawSelected(poly)
              members == {sel[i] : i \in 1..Len(sel)}
          IN /\ members = {k \in 1..Len(Rendered) : k \in poly.ix \/ k \in poly.cin}
             /\ Len(sel) = Cardinality(members)
             /\ \E n \in 0..Len(Rendered) :
                  /\ n = Cardinality(poly.ix \cup poly.cin)
                  /\ status' = CountStatus(n) ]_vars

\* C16 witness: the polygon that intersects feature 2 (whose centroid it
\* also contains) and contains the centroid of feature 1 without
\* intersecting it selected two features, feature 1 among them
C16_Witness ==
  /\ status = "2 features selected"
  /\ parcelInfo = PropsInfo(Rendered[1])
  /\ sidebarOpen

FailureValue(r) ==
  /\ ~r.thrown
  /\ r.error
  /\ r.status \in {"n0", "n500"}
  /\ r.statusText \notin {Undef, Nil, ""}

\* C18: safeFetch hands back a value whatever fetch() does, a failure
\* value with status and message for a non-2xx answer, a network exception
\* and an unparsable body; the click, search and deep-link handlers are
\* resumed with it and run to their end: the continuation is consumed, the
\* busy indicator is switched off and the handler's result is shown.
C18_SafeFetchNeverThrows ==
  [][ \A req \in BagToSet(inflight) : Resumes(req) =>
      \A outcome \in Outcomes :
        /\ ClickFetchResolve(req, outcome) =>
             /\ ~safeFetch(DetailsRoute(req.id), outcome).thrown
             /\ outcome \in Failures =>
                  FailureValue(safeFetch(DetailsRoute(req.id), outcome))
             /\ inflight' = inflight (-) SetToBag({req})
             /\ ~fetching'
             /\ sidebarOpen'
             /\ status' = "Parcel details loaded"
        /\ DeepLinkResolve(req, outcome) =>
             /\ ~safeFetch(DetailsRoute(req.id), outcome).thrown
             /\ outcome \in Failures =>
                  FailureValue(safeFetch(DetailsRoute(req.id), outcome))
             /\ inflight' = inflight (-) SetToBag({req})
             /\ ~fetching'
        /\ SearchResolve(req, outcome) =>
             /\ ~safeFetch(ParcelsRoute(req.text), outcome).thrown
             /\ outcome \in Failures =>
                  FailureValue(safeFetch(ParcelsRoute(req.text), outcome))
             /\ CopiesIn(req, inflight') = CopiesIn(req, inflight) - 1
             /\ status' \in {"Parcel found (server)", "Parcel found (rendered)",
                             "Parcel not found"} ]_vars

\* C18 witness: the detail fetch of the click on the feature with id u1
\* (which the store holds) failed, and its handler ran to the end
C18_Witness ==
  /\ parcelInfo = NotFoundInfo("u1")
  /\ selectedFeatureRef = IdSel("u1")
  /\ urlId = "u1"
  /\ ~fetching
  /\ NumPending = 0

\* C19: after the detail fetch of a click resolves, a transport/HTTP
\* failure leaves a Panel state (Parcel Detail and status) different from
\* the one an answer without a record leaves.
C19_ErrorDistinctFromNotFound ==
  [][ \A req \in BagToSet(inflight), outcome \in Failures :
        ClickFetchResolve(req, outcome) =>
          << parcelInfo', status' >> #
            << [kind |-> "notFound", master_id |-> req.id, prop_id |-> Nil],
               "Parcel details loaded" >> ]_vars

\* C20: when the server lookup of a search fails with a transport/HTTP
\* error, the search handler raises a blocking notification.
C20_SearchFailureNotified ==
  [][ \A req \in BagToSet(inflight), outcome \in Failures :
        SearchResolve(req, outcome) => hAlert' # Nil ]_vars

(* --------------------------- layer not ready --------------------------- *)
\* C21: while the parcels-fill layer does not exist, a click clears the
\* selection and issues no fetch, a search ends without a result from the
\* rendered features, and a draw completion changes the status only; none
\* of the three highlights anything.
C21_LayerNotReady ==
  [][ ~parcelsFill =>
        /\ \A pt \in Points : Click(pt) =>
             /\ parcelInfo' = NullInfo
             /\ overlayInfo' = <<>>
             /\ ~sidebarOpen'
             /\ status' = "Selection cleared"
             /\ inflight' = inflight
             /\ fetching' = fetching
             /\ featureState' \subseteq featureState
             /\ highlightSource' = {}
        /\ \A req \in BagToSet(inflight) : Resumes(req) =>
           \A outcome \in Outcomes : SearchResolve(req, outcome) =>
             /\ status' # "Parcel found (rendered)"
             /\ parcelInfo' = parcelInfo \/ parcelInfo'.kind = "record"
             /\ UNCHANGED << featureState, highlightSource, selectedFeatureRef >>
        /\ \A poly \in Polygons : handleDrawCreateOrUpdate(poly) =>
             /\ status' = "Draw: layer not ready"
             /\ UNCHANGED << parcelInfo, overlayInfo, sidebarOpen, featureState,
                             highlightSource, selectedFeatureRef, inflight,
                             fetching, lastFetchedIdRef, urlId >> ]_vars

\* C21 witness: the map has loaded without the parcels layer (adding it
\* failed) and a draw completion was reported as not ready
C21_Witness ==
  /\ mapState = "loaded"
  /\ ~parcelsFill
  /\ status = "Draw: layer not ready"
  /\ NumHighlighted = 0

(* ------------------------ identifier resolution ------------------------ *)
\* C22: the identifier a click resolves for a feature (Pending Fetch Token,
\* URL, detail fetch) is the explicit feature id when the feature has one,
\* otherwise the first non-empty identifier property, otherwise none; the
\* highlight is keyed by that same identifier.
C22_IdentifierResolution ==
  [][ \A pt \in Points :
        (Click(pt) /\ parcelsFill /\ pt.feat # NoFeature) =>
          LET f == Rendered[pt.feat]
              resolved == IF f.id # Undef THEN JsString(f.id)
                          ELSE IF f.master_id # Nil THEN f.master_id
                          ELSE Nil
          IN /\ resolved # Nil =>
                  /\ lastFetchedIdRef' = resolved
                  /\ urlId' = resolved
                  /\ selectedFeatureRef'.kind = "id"
                  /\ JsString(selectedFeatureRef'.id) = lastFetchedIdRef'
             /\ resolved = Nil =>
                  /\ selectedFeatureRef'.kind = "ephemeral"
                  /\ UNCHANGED << lastFetchedIdRef, urlId, inflight >> ]_vars

(* ------------------------- Panel and selection ------------------------- *)
\* a detail fetch (of a click or of the deep-link load) is pending in bag
DetailFetchPending(bag) ==
  \E req \in BagToSet(bag) : req.kind \in {"click", "deeplink"}

\* info is the Parcel Detail of identifier X: the record the store holds
\* for X, or the not-found record tagged X
BelongsTo(info, X) ==
  \/ info = [kind |-> "notFound", master_id |-> X, prop_id |-> Nil]
  \/ /\ info.kind = "record"
     /\ \E r \in PropertyMaster :
          /\ info = [kind |-> "record", master_id |-> r.master_id,
                     prop_id |-> r.prop_id]
          /\ X \in {r.master_id, r.prop_id}

\* C26: when a click on a feature with identifier X leaves the Panel open
\* with no detail fetch in flight (the duplicate-click guard has answered
\* it without fetching), the Parcel Detail shown belongs to X and the
\* clicked feature is the highlighted one.
C26_PanelShowsLastClick ==
  [][ ( /\ \E pt \in Points :
              /\ Click(pt)
              /\ parcelsFill
              /\ pt.feat # NoFeature
              /\ \/ Rendered[pt.feat].master_id # Nil
                 \/ Rendered[pt.feat].id # Undef
        /\ sidebarOpen'
        /\ ~DetailFetchPending(inflight') ) =>
        /\ BelongsTo(parcelInfo', hLastClickId')
        /\ selectedFeatureRef'.kind = "id"
        /\ featureState' = {selectedFeatureRef'.id} ]_vars

\* the selection has been cleared and no click on a feature, search, draw
\* completion or deep-link answer has happened since
SelectionCleared ==
  /\ status = "Selection cleared"
  /\ selectedFeatureRef = NoSel
  /\ parcelInfo = NullInfo
  /\ ~sidebarOpen

\* C27: the completion of a click's detail fetch that arrives after the
\* selection has been cleared neither sets Parcel Detail nor opens the
\* Panel.
C27_ClearedStaysCleared ==
  [][ SelectionCleared =>
        \A req \in BagToSet(inflight) : Resumes(req) =>
          \A outcome \in Outcomes : ClickFetchResolve(req, outcome) =>
            /\ parcelInfo' = NullInfo
            /\ ~sidebarOpen' ]_vars

\* C28: the timeout a not-found search schedules replaces the status only
\* while it still is "Parcel not found"; a status set since then stays.
C28_TimeoutKeepsNewerStatus ==
  [][ (ReadyTimeout /\ status # "Parcel not found") => status' = status ]_vars

\* C29: the busy indicator is on exactly while a detail fetch (of a click
\* or of the deep-link load) is in flight.
C29_FetchingIffPending == fetching <=> DetailFetchPending(inflight)


(* ------------------------------ CSV rows ------------------------------- *)
\* the number of members of the exported detail that are not lists
BaseFieldCount ==
  Cardinality({ j \in DOMAIN csvInfo.keys : ~EndsWithList(csvInfo.keys[j]) })

\* the rows of the file whose first cell is group[i].*
RowsOf(group, i) ==
  { j \in DOMAIN csvRows : csvRows[j].group = group /\ csvRows[j].index = i }

\* C23 as stated: the file has as many rows as the detail has base fields,
\* plus four per land entry and four per improvement entry
C23_RowCountAsStated ==
  csvRows # <<>> =>
    Len(csvRows) = BaseFieldCount + 4 * csvInfo.land + 4 * csvInfo.impr

\* C23 (amended): every land entry i has its four rows land[i].type,
\* .acres, .value, .year, and the file has one header row, one row per
\* base field, four per land entry and four per improvement entry
C23_CsvRowCount ==
  csvRows # <<>> =>
    /\ \A i \in 0..(csvInfo.land - 1) :
         /\ Cardinality(RowsOf("land", i)) = 4
         /\ { csvRows[j].name : j \in RowsOf("land", i) }
              = {"type", "acres", "value", "year"}
    /\ \A j \in DOMAIN csvRows :
         csvRows[j].group = "land" => csvRows[j].index \in 0..(csvInfo.land - 1)
    /\ csvRows[1] = HeaderRow
    /\ Len(csvRows) = 1 + BaseFieldCount + 4 * csvInfo.land + 4 * csvInfo.impr

\* a detail with at least two land entries and one improvement exported
C23_Witness ==
  /\ csvInfo.land >= 2
  /\ csvInfo.impr >= 1
  /\ Len(csvRows) = 1 + 24 + 4 * csvInfo.land + 4 * csvInfo.impr
  /\ \E j \in DOMAIN csvRows : csvRows[j] = Row("land", 1, "acres")

(* ------------------------------ the routes ----------------------------- *)
\* the rows a lookup of `id` may return
MasterRows(id) == { r \in propertyMaster : r.master_id = id }
PropRows(id) == { r \in propertyMaster : r.prop_id = id }

\* C24: GET /api/details/{id} answers with the row of the master_id lookup
\* when the id is UUID-shaped and that lookup has a row, and otherwise with
\* the row of the prop_id lookup; with no row in either it answers 200 with
\* details null; when the database fails it answers 500 with no `details`
\* member at all
C24_DetailsLookupOrder ==
  srvReq.route = "details" =>
    LET id == Trim(srvReq.id) IN
    IF srvReq.db = "down"
      THEN srvRes.status = "n500" /\ srvRes.details = Undef
      ELSE /\ srvRes.status = "n200"
           /\ srvRes.error = Undef
           /\ IF UuidShaped(id) /\ MasterRows(id) # {}
                 THEN \E r \in MasterRows(id) :
                        srvRes.details = Info("record", r.master_id, r.prop_id)
                 ELSE IF PropRows(id) # {}
                   THEN \E r \in PropRows(id) :
                          srvRes.details = Info("record", r.master_id, r.prop_id)
                   ELSE srvRes.details = NullInfo

\* a UUID-shaped id with no master_id row answered through the prop_id
\* fallback
C24_Witness ==
  /\ srvReq.route = "details"
  /\ srvReq.db = "ok"
  /\ UuidShaped(Trim(srvReq.id))
  /\ MasterRows(Trim(srvReq.id)) = {}
  /\ PropRows(Trim(srvReq.id)) # {}
  /\ srvRes.details.kind = "record"

\* C25 as stated: GET /api/parcels/{id} returns the `details` value that
\* GET /api/details/{id} returns, for every id and every store content
C25_SameDetailsAsDetailsRoute ==
  (srvReq.route = "parcels" /\ srvReq.db = "ok") =>
    srvRes.details = DetailsRoute(Trim(srvReq.id))

\* C25 (amended): GET /api/parcels/{id} looks the id up as a prop_id only;
\* it answers 200 with the row's payload or with details null when no row
\* has that prop_id, and 500 with no `details` member when the database
\* fails; its `details` equals that of GET /api/details/{id} whenever the
\* id is not UUID-shaped or no row has it as master_id
C25_ParcelsByPropIdOnly ==
  srvReq.route = "parcels" =>
    LET pid == Trim(srvReq.id) IN
    IF srvReq.db = "down"
      THEN srvRes.status = "n500" /\ srvRes.details = Undef
      ELSE /\ srvRes.status = "n200"
           /\ srvRes.error = Undef
           /\ IF PropRows(pid) # {}
                 THEN \E r \in PropRows(pid) :
                        srvRes.details = Info("record", r.master_id, r.prop_id)
                 ELSE srvRes.details = NullInfo
           /\ (~UuidShaped(pid) \/ MasterRows(pid) = {}) =>
                 srvRes.details = DetailsRoute(pid)

\* a UUID-shaped id that is one row's master_id and another row's prop_id,
\* answered by /api/parcels with the prop_id row
C25_Witness ==
  /\ srvReq.route = "parcels"
  /\ srvReq.db = "ok"
  /\ MasterRows(Trim(srvReq.id)) # {}
  /\ PropRows(Trim(srvReq.id)) # {}
  /\ srvRes.details.kind = "record"
  /\ srvRes.details.prop_id = Trim(srvReq.id)


(* ------------------------ the script's click guard --------------------- *)
\* C30: in the standalone script a click that arrives while isLoading is
\* true changes neither the highlight nor the panel and issues no fetch; at
\* most one fetch of a click handler is pending at any time; isLoading is
\* false after such a fetch resolved or rejected; and whenever isLoading is
\* true it becomes false again, so that clicks are accepted again
C30_ClickGuard ==
  /\ [][ isLoading => \A pt \in Points :
           ScriptClick(pt) =>
             UNCHANGED << isLoading, highlightedId, tileFeatureState, infoEl,
                          extraInfo, loadingEl, fetches >> ]_vars
  /\ [](ClickFetches <= 1)
  /\ [][ \A req \in BagToSet(fetches), outcome \in ScriptOutcomes :
           ScriptClickSettle(req, outcome) => ~isLoading' ]_vars
  /\ (isLoading ~> ~isLoading)

\* a click was turned away during a fetch that has since settled, and the
\* panel shows the details of the parcel clicked first
C30_Witness ==
  /\ hIgnoredClick
  /\ ~isLoading
  /\ ClickFetches = 0
  /\ infoEl = InfoView("details", "u1")
  /\ highlightedId = "u1"

====
